---- MODULE Spec2Model ----
(***************************************************************************)
(* Render-job orchestration of visora-backend-v2.                          *)
(*                                                                         *)
(*   - the job record (jobs/<id>.json) as written by utils/job_store.py    *)
(*     and tasks/render_task.py                                            *)
(*   - GET /render/start/{job_id} (api/render_routes.py) and the celery    *)
(*     queue "renderers" (services/queue.py)                               *)
(*   - the celery task render_job_task (tasks/render_task.py), one         *)
(*     instance per worker process, interleaved at file writes and         *)
(*     external calls                                                      *)
(*   - the RQ task process_video_job (tasks.py) with its retry loop        *)
(*   - the loss of a worker process, record updates with read and write    *)
(*     apart, and a cancellation request, each as its own specification    *)
(*   - POST /create-video (api/routes/video.py)                            *)
(*   - replicate_generate_video (app.py) with its polling loop             *)
(***************************************************************************)
EXTENDS Integers, Sequences, FiniteSets, TLC

\* ---------------------------------------------------------------- bounds
\* number of GET /render/start requests issued in one behaviour
MaxStarts == 2
\* largest JOB_MAX_ATTEMPTS value drawn from the environment
MaxAttemptsEnv == 3
\* number of poll intervals that fit into the overall timeout of a polling loop
MaxPolls == 2
\* number of POST /create-video requests issued in one behaviour
MaxCreates == 1
\* number of worker processes lost in one behaviour
MaxCrashes == 1

\* ------------------------------------------------------------- universes
Workers == {"w1", "w2"}
\* j1 has a record on disk, j2 is an id without a record
JobIds == {"j1", "j2"}
\* a missing jobs/<id>.json
NoFile == [exists |-> FALSE]
\* result as Job.__init__ leaves it: the empty dict
NoResult == [video_url |-> "unset", path |-> "unset"]
NoJob == "NoJob"
\* error as Job.__init__ leaves it: None
NoError == [message |-> "unset"]
\* actors that write a job record: the API process and the workers
Actors == Workers \cup {"api"}

VARIABLES
    files,      \* JOBS_DIR: job id -> content of jobs/<id>.json, or NoFile
    queue,      \* celery queue "renderers": job id -> number of messages waiting
    S3_BUCKET,  \* environment: TRUE when S3_BUCKET is non-empty
    BACON_URL,  \* environment: TRUE when BACON_URL is set
    starts,     \* number of start_render requests made so far
    resp,       \* HTTP status of the last start_render response
    pc,         \* worker -> position inside render_job_task
    loc,        \* worker -> local variables of the running render_job_task
    wlog,       \* worker -> statuses written by the current/last execution
    lastWriter, \* job id -> who wrote the record last ("api" or a worker)
    notified,   \* job id -> number of webhook posts made for the job
    pv,         \* state of one process_video_job execution (tasks.py)
    rep,        \* state of one replicate_generate_video call (app.py)
    progress,   \* redis key job:<id>:status: job id -> payload of set_progress
    acks_late,  \* TRUE when render_job_task runs on the app of services/celery_app.py
    crashes,    \* number of worker processes lost so far
    cancel,     \* job id -> cancellation request and where each worker was then
    race,       \* actor -> position and snapshot of an unlocked record update
    creates     \* number of POST /create-video requests made so far

\* state that render_job_task and start_render never touch
auxVars == <<acks_late, crashes, cancel, race, creates, progress>>
vars == <<files, queue, S3_BUCKET, BACON_URL, starts, resp, pc, loc, wlog, lastWriter,
          notified, pv, rep, auxVars>>
\* the render part without the replicate call
renderVarsButRep == <<files, queue, S3_BUCKET, BACON_URL, starts, resp, pc, loc, wlog,
                      lastWriter, notified, auxVars>>
\* everything but the state of process_video_job
renderVars == <<files, queue, S3_BUCKET, BACON_URL, starts, resp, pc, loc, wlog, lastWriter,
                notified, rep, auxVars>>

\* ------------------------------------------------------- the job record
\* utils/job_store.py Job.__init__ / Job.create: a fresh record; payload stands
\* for the submitted input kept in the record (script_text, preset, avatar,
\* created_at): "text" a script with text in it
NewJob(face, hook) ==
    [status       |-> "created",
     result       |-> NoResult,
     error        |-> NoError,
     completed_at |-> FALSE,
     face_video   |-> face,
     payload      |-> "text",
     meta         |-> [webhook_url     |-> hook,
                       manual_started  |-> FALSE,
                       last_update_at  |-> FALSE]]

\* tasks/render_task.py read_job_file: raises FileNotFoundError when absent
read_job_file(job_id) == files[job_id]

\* the dict update_job_status & co. fall back to when the read raised: {"id": job_id}
BareJob ==
    [status       |-> "none",
     result       |-> NoResult,
     error        |-> NoError,
     completed_at |-> FALSE,
     face_video   |-> FALSE,
     payload      |-> "unset",
     meta         |-> [webhook_url |-> FALSE, manual_started |-> FALSE, last_update_at |-> FALSE]]

ReadOrBare(job_id) == IF files[job_id] = NoFile THEN BareJob ELSE files[job_id]

\* tasks/render_task.py update_job_status: only status and meta.last_update_at change
update_job_status(job, status) ==
    [job EXCEPT !.status = status, !.meta.last_update_at = TRUE]

\* set_job_result without the assignment job["status"] = "completed"
set_job_result_keeps_status(job, result) ==
    [job EXCEPT !.result = result, !.completed_at = TRUE]

\* tasks/render_task.py set_job_result
set_job_result(job, result) ==
    [job EXCEPT !.result = result, !.status = "completed", !.completed_at = TRUE]

\* tasks/render_task.py set_job_failed
set_job_failed(job, error) ==
    [job EXCEPT !.status = "failed", !.error = error, !.completed_at = TRUE]

\* render_job_task line 255: err = str(exc) + "\n" + traceback.format_exc(),
\* one string made of the exception text and the traceback; exc is the stage
\* whose call raised (TypeError of run_wav2lip, RuntimeError of render_scene)
exception_text(exc) ==
    IF exc = "lipsync" THEN "run_wav2lip() missing 1 required positional argument"
    ELSE "Blender render failed"
error_string(exc) == [message |-> exception_text(exc), traceback |-> TRUE]

\* utils/job_store.py Job.get followed by Job.save: the record is rebuilt from
\* to_dict(), which has no face_video key, so that key is not written back
\* (Job.get fills a missing script_text with "" and a missing created_at with
\* the time of the call)
Job_to_dict(job) ==
    [job EXCEPT !.face_video = FALSE,
                !.payload = IF @ = "unset" THEN "default" ELSE @]

\* api/render_routes.py start_render, line 17
RejectedStatuses == {"started", "parsing", "rendering", "completed"}

\* ------------------------------------------------------------------ Init
IdleLoc ==
    [job |-> NoJob, face |-> FALSE, audio |-> "none", video |-> "none",
     combine |-> "none", final_path |-> "none", upload |-> "none",
     video_url |-> "none", exc |-> "none", whk |-> "none", ret |-> "none",
     ran |-> <<>>]

\* replicate_generate_video not called
RepIdle ==
    [pc |-> "off", token |-> FALSE, model |-> FALSE, polls |-> 0, seen |-> <<>>,
     elapsed |-> FALSE, url |-> "none", ret |-> "none", logged |-> "none",
     clock |-> 0, late |-> 0]

\* no cancellation requested; at: number of statuses each worker had written
\* when the request came
NoCancel == [requested |-> FALSE, at |-> [w \in Workers |-> 0]]

\* no progress stored for a job: the redis key does not exist
NoProgress == [status |-> "unset", progress |-> 0, stored |-> FALSE]

\* no read-modify-write in flight for an actor
RaceIdle == [phase |-> "idle", job |-> NoJob, snap |-> NoFile]

\* process_video_job not running; the redis hash video:<uuid> is empty
PvIdle ==
    [pc |-> "off", max_attempts |-> 0, attempts |-> 0, calls |-> 0, saved |-> FALSE,
     ret |-> "none", log |-> <<>>, polls |-> 0, last |-> "none", clock |-> 0, late |-> 0,
     meta |-> [status |-> "none", attempts |-> -1, video_url |-> "none", error |-> "none"]]

InitRender ==
    /\ \E face \in BOOLEAN, hook \in BOOLEAN :
          files = [j \in JobIds |-> IF j = "j1" THEN NewJob(face, hook) ELSE NoFile]
    /\ queue = [j \in JobIds |-> 0]
    /\ S3_BUCKET \in BOOLEAN
    /\ BACON_URL \in BOOLEAN
    /\ starts = 0
    /\ resp = "none"
    /\ pc = [w \in Workers |-> "idle"]
    /\ loc = [w \in Workers |-> IdleLoc]
    /\ wlog = [w \in Workers |-> <<>>]
    /\ lastWriter = [j \in JobIds |-> "api"]
    /\ notified = [j \in JobIds |-> 0]

\* no worker lost, no cancellation asked, no update in flight, no submission
InitAux ==
    /\ acks_late = FALSE
    /\ progress = [j \in JobIds |-> NoProgress]
    /\ crashes = 0
    /\ cancel = [j \in JobIds |-> NoCancel]
    /\ race = [a \in Actors |-> RaceIdle]
    /\ creates = 0

Init == InitRender /\ InitAux /\ pv = PvIdle /\ rep = RepIdle

\* --------------------------------------------- api/render_routes.py
\* services/queue.py enqueue_render_job: one message per call
enqueue_render_job(q, job_id) == [q EXCEPT ![job_id] = @ + 1]

\* start_render, 404 branch (lines 13-15)
StartRender404(j) ==
    /\ starts < MaxStarts
    /\ files[j] = NoFile
    /\ starts' = starts + 1
    /\ resp' = "404"
    /\ UNCHANGED <<files, queue, S3_BUCKET, BACON_URL, pc, loc, wlog, lastWriter, pv, rep, auxVars, notified>>

\* start_render, 409 branch (lines 17-18)
StartRender409(j) ==
    /\ starts < MaxStarts
    /\ files[j] # NoFile
    /\ files[j].status \in RejectedStatuses
    /\ starts' = starts + 1
    /\ resp' = "409"
    /\ UNCHANGED <<files, queue, S3_BUCKET, BACON_URL, pc, loc, wlog, lastWriter, pv, rep, auxVars, notified>>

\* start_render, accepting branch (lines 20-33)
StartRender200(j) ==
    /\ starts < MaxStarts
    /\ files[j] # NoFile
    /\ files[j].status \notin RejectedStatuses
    /\ files' = [files EXCEPT ![j] =
                    [Job_to_dict(files[j]) EXCEPT !.status = "queued",
                                                  !.meta.manual_started = TRUE]]
    /\ lastWriter' = [lastWriter EXCEPT ![j] = "api"]
    /\ queue' = enqueue_render_job(queue, j)
    /\ starts' = starts + 1
    /\ resp' = "200"
    /\ UNCHANGED <<S3_BUCKET, BACON_URL, pc, loc, wlog, pv, rep, auxVars, notified>>

start_render(j) == StartRender404(j) \/ StartRender409(j) \/ StartRender200(j)

\* --------------------------------------------- tasks/render_task.py
\* a write of the job file by worker w: the record, who wrote it, and the
\* status it carries
WriteJob(w, j, rec) ==
    /\ files' = [files EXCEPT ![j] = rec]
    /\ lastWriter' = [lastWriter EXCEPT ![j] = w]
    /\ wlog' = [wlog EXCEPT ![w] = Append(@, rec.status)]

Goto(w, label) == pc' = [pc EXCEPT ![w] = label]

\* the worker takes a message off the queue and calls render_job_task(job_id)
Deliver(w, j) ==
    /\ pc[w] = "idle"
    /\ queue[j] > 0
    /\ queue' = [queue EXCEPT ![j] = @ - 1]
    /\ loc' = [loc EXCEPT ![w] = [IdleLoc EXCEPT !.job = j]]
    /\ wlog' = [wlog EXCEPT ![w] = <<>>]
    /\ Goto(w, "read")
    /\ UNCHANGED <<files, S3_BUCKET, BACON_URL, starts, resp, lastWriter, pv, rep, auxVars, notified>>

\* lines 106-115: read the job file; FileNotFoundError leaves the task at once
ReadJob(w) ==
    /\ pc[w] = "read"
    /\ LET job == read_job_file(loc[w].job) IN
          IF job = NoFile
          THEN /\ loc' = [loc EXCEPT ![w].ret = "raised", ![w].exc = "FileNotFoundError"]
               /\ Goto(w, "idle")
          ELSE /\ loc' = [loc EXCEPT ![w].face = job.face_video]
               /\ Goto(w, "started")
    /\ UNCHANGED <<files, queue, S3_BUCKET, BACON_URL, starts, resp, wlog, lastWriter, pv, rep, auxVars, notified>>

\* line 118: update_job_status(job_id, "started")
Started(w) ==
    /\ pc[w] = "started"
    /\ WriteJob(w, loc[w].job, update_job_status(ReadOrBare(loc[w].job), "started"))
    /\ Goto(w, "tts_status")
    /\ UNCHANGED <<queue, S3_BUCKET, BACON_URL, starts, resp, loc, pv, rep, auxVars, notified>>

\* line 121: update_job_status(job_id, "tts")
TtsStatus(w) ==
    /\ pc[w] = "tts_status"
    /\ WriteJob(w, loc[w].job, update_job_status(ReadOrBare(loc[w].job), "tts"))
    /\ Goto(w, "tts")
    /\ UNCHANGED <<queue, S3_BUCKET, BACON_URL, starts, resp, loc, pv, rep, auxVars, notified>>

\* lines 125-141: audio_path after the TTS call.
\*   tts = "ok"     synthesize_voice returned the mp3
\*   tts = "raise"  synthesize_voice raised; ffmpeg = "ok" wrote one second of
\*                  silence, ffmpeg = "raise" made the code write an empty file
TtsOutcomes == {<<"ok", "ok">>, <<"raise", "ok">>, <<"raise", "raise">>}
tts_audio_path(tts, ffmpeg) ==
    IF tts = "ok" THEN "speech"
    ELSE IF ffmpeg = "ok" THEN "silent" ELSE "empty"

Tts(w) ==
    /\ pc[w] = "tts"
    /\ \E o \in TtsOutcomes :
          loc' = [loc EXCEPT ![w].audio = tts_audio_path(o[1], o[2]),
                             ![w].ran = Append(@, "tts")]
    /\ Goto(w, "stage2_status")
    /\ UNCHANGED <<files, queue, S3_BUCKET, BACON_URL, starts, resp, wlog, lastWriter, pv, rep, auxVars, notified>>

\* lines 146-147 and 185: status of the second stage
Stage2Status(w) ==
    /\ pc[w] = "stage2_status"
    /\ WriteJob(w, loc[w].job,
                update_job_status(ReadOrBare(loc[w].job),
                                  IF loc[w].face THEN "lipsync" ELSE "rendering"))
    /\ Goto(w, "stage2")
    /\ UNCHANGED <<queue, S3_BUCKET, BACON_URL, starts, resp, loc, pv, rep, auxVars, notified>>

\* line 154: wav2lip_runner.run_wav2lip is called with three arguments while
\* engines/wav2lip_runner.py:46 requires four, so the call raises TypeError
\* (not the AttributeError handled at line 158)
run_wav2lip_outcomes == {"TypeError"}
\* line 193: blender_runner.render_scene returns the path or raises
render_scene_outcomes == {"ok", "raise"}

\* the name of the second stage: lip-sync with a face video, scene render without
stage2_name(face) == IF face THEN "lipsync" ELSE "rendering"

\* the second stage without the propagation of its exception
after_stage2_continues(outcome) == "post_status"

\* where render_job_task continues after the second stage: the next stage, or
\* the outer except clause (line 253) when the call raised
after_stage2(outcome) == IF outcome = "ok" THEN "post_status" ELSE "set_failed"

\* lines 148-170 / 186-194: the second stage
Stage2(w) ==
    /\ pc[w] = "stage2"
    /\ \E o \in (IF loc[w].face THEN run_wav2lip_outcomes ELSE render_scene_outcomes) :
          /\ loc' = [loc EXCEPT ![w].video = IF o = "ok" THEN "blender_out" ELSE @,
                                ![w].exc = IF o = "ok" THEN @ ELSE stage2_name(loc[w].face),
                                ![w].ran = Append(@, stage2_name(loc[w].face))]
          /\ Goto(w, after_stage2(o))
    /\ UNCHANGED <<files, queue, S3_BUCKET, BACON_URL, starts, resp, wlog, lastWriter, pv, rep, auxVars, notified>>

\* lines 173 / 196: update_job_status(job_id, "postprocessing")
PostStatus(w) ==
    /\ pc[w] = "post_status"
    /\ WriteJob(w, loc[w].job, update_job_status(ReadOrBare(loc[w].job), "postprocessing"))
    /\ Goto(w, "combine")
    /\ UNCHANGED <<queue, S3_BUCKET, BACON_URL, starts, resp, loc, pv, rep, auxVars, notified>>

\* lines 198-203: combined is the ffmpeg output, or the stage-2 video when
\* combine_audio_video raised; final_path = str(final_out) if combined else video
combined_of(outcome, video) == IF outcome = "ok" THEN "final_out" ELSE video
final_path_of(combined, video) == IF combined # "" THEN "final_out" ELSE video

Combine(w) ==
    /\ pc[w] = "combine"
    /\ \E o \in {"ok", "raise"} :
          loc' = [loc EXCEPT ![w].combine = o,
                             ![w].ran = Append(@, "postprocessing"),
                             ![w].final_path =
                                 final_path_of(combined_of(o, loc[w].video), loc[w].video)]
    /\ Goto(w, "upload_status")
    /\ UNCHANGED <<files, queue, S3_BUCKET, BACON_URL, starts, resp, wlog, lastWriter, pv, rep, auxVars, notified>>

\* line 208: update_job_status(job_id, "uploading")
UploadStatus(w) ==
    /\ pc[w] = "upload_status"
    /\ WriteJob(w, loc[w].job, update_job_status(ReadOrBare(loc[w].job), "uploading"))
    /\ Goto(w, "upload")
    /\ UNCHANGED <<queue, S3_BUCKET, BACON_URL, starts, resp, loc, pv, rep, auxVars, notified>>

\* lines 209-234: the locator stored as video_url.
\*   s3cfg    S3_BUCKET is set
\*   first    outcome of engines/postprocess.upload_to_s3 (line 214)
\*   second   outcome of services/storage.upload_to_s3_if_configured (line 220)
\* "s3" is the bucket URL, "local" is {BASE_URL}/videos/<name of final_path>
UploadOutcomes == {<<"ok", "ok">>, <<"raise", "ok">>, <<"raise", "raise">>}

\* the upload step without the except clause of lines 228-234
video_url_unguarded(s3cfg, first, second) ==
    IF ~s3cfg THEN "local"
    ELSE IF first = "ok" THEN "s3"
    ELSE IF second = "ok" THEN "s3"
    ELSE "none"

video_url_of(s3cfg, first, second) ==
    IF ~s3cfg THEN "local"
    ELSE IF first = "ok" THEN "s3"
    ELSE IF second = "ok" THEN "s3"
    ELSE "local"

upload_state(s3cfg, first, second) ==
    IF ~s3cfg THEN "not_configured"
    ELSE IF first = "ok" \/ second = "ok" THEN "uploaded" ELSE "failed"

Upload(w) ==
    /\ pc[w] = "upload"
    /\ \E o \in (IF S3_BUCKET THEN UploadOutcomes ELSE {<<"ok", "ok">>}) :
          loc' = [loc EXCEPT ![w].upload = upload_state(S3_BUCKET, o[1], o[2]),
                             ![w].ran = Append(@, "uploading"),
                             ![w].video_url = video_url_of(S3_BUCKET, o[1], o[2])]
    /\ Goto(w, "set_result")
    /\ UNCHANGED <<files, queue, S3_BUCKET, BACON_URL, starts, resp, wlog, lastWriter, pv, rep, auxVars, notified>>

\* line 237: set_job_result(job_id, {"video_url": video_url, "path": final_path})
SetResult(w) ==
    /\ pc[w] = "set_result"
    /\ WriteJob(w, loc[w].job,
                set_job_result(ReadOrBare(loc[w].job),
                               [video_url |-> loc[w].video_url, path |-> loc[w].final_path]))
    /\ Goto(w, "webhook_ok")
    /\ UNCHANGED <<queue, S3_BUCKET, BACON_URL, starts, resp, loc, pv, rep, auxVars, notified>>

\* lines 242-244 / 259-261: webhook = meta.webhook_url or BACON_URL
webhook_of(job) == (job # NoFile /\ job.meta.webhook_url) \/ BACON_URL
WebhookOutcomes(job) == IF webhook_of(job) THEN {"ok", "raise"} ELSE {"skip"}

\* the notification without the except clause of lines 248-249: a failed post
\* reaches the outer handler
after_webhook_unguarded(outcome) == IF outcome = "raise" THEN "set_failed" ELSE "idle"

\* where render_job_task continues after the notification on success
\* (lines 241-251): the except clause swallows a failed post
after_webhook(outcome) == "idle"

\* lines 240-251: optional webhook, then return {"ok": True, ...}
WebhookOk(w) ==
    /\ pc[w] = "webhook_ok"
    /\ \E o \in WebhookOutcomes(files[loc[w].job]) :
          /\ loc' = [loc EXCEPT ![w].whk = o,
                                ![w].ret = IF after_webhook(o) = "idle" THEN "ok" ELSE "none"]
          /\ Goto(w, after_webhook(o))
          /\ notified' = [notified EXCEPT ![loc[w].job] = IF o = "skip" THEN @ ELSE @ + 1]
    /\ UNCHANGED <<files, queue, S3_BUCKET, BACON_URL, starts, resp, wlog, lastWriter, pv, rep, auxVars>>

\* lines 253-256: the outer except: set_job_failed(job_id, err)
SetFailed(w) ==
    /\ pc[w] = "set_failed"
    /\ WriteJob(w, loc[w].job, set_job_failed(ReadOrBare(loc[w].job), error_string(loc[w].exc)))
    /\ Goto(w, "webhook_fail")
    /\ UNCHANGED <<queue, S3_BUCKET, BACON_URL, starts, resp, loc, pv, rep, auxVars, notified>>

\* lines 257-266: optional failure webhook, then re-raise
WebhookFail(w) ==
    /\ pc[w] = "webhook_fail"
    /\ \E o \in WebhookOutcomes(files[loc[w].job]) :
          /\ loc' = [loc EXCEPT ![w].whk = o, ![w].ret = "raised"]
          /\ notified' = [notified EXCEPT ![loc[w].job] = IF o = "skip" THEN @ ELSE @ + 1]
    /\ Goto(w, "idle")
    /\ UNCHANGED <<files, queue, S3_BUCKET, BACON_URL, starts, resp, wlog, lastWriter, pv, rep, auxVars>>

render_job_task(w) ==
    \/ ReadJob(w) \/ Started(w) \/ TtsStatus(w) \/ Tts(w)
    \/ Stage2Status(w) \/ Stage2(w) \/ PostStatus(w) \/ Combine(w)
    \/ UploadStatus(w) \/ Upload(w) \/ SetResult(w) \/ WebhookOk(w)
    \/ SetFailed(w) \/ WebhookFail(w)

Next ==
    \/ \E j \in JobIds : StartRender404(j)
    \/ \E j \in JobIds : StartRender409(j)
    \/ \E j \in JobIds : StartRender200(j)
    \/ \E w \in Workers, j \in JobIds : Deliver(w, j)
    \/ \E w \in Workers : ReadJob(w)
    \/ \E w \in Workers : Started(w)
    \/ \E w \in Workers : TtsStatus(w)
    \/ \E w \in Workers : Tts(w)
    \/ \E w \in Workers : Stage2Status(w)
    \/ \E w \in Workers : Stage2(w)
    \/ \E w \in Workers : PostStatus(w)
    \/ \E w \in Workers : Combine(w)
    \/ \E w \in Workers : UploadStatus(w)
    \/ \E w \in Workers : Upload(w)
    \/ \E w \in Workers : SetResult(w)
    \/ \E w \in Workers : WebhookOk(w)
    \/ \E w \in Workers : SetFailed(w)
    \/ \E w \in Workers : WebhookFail(w)

Spec == Init /\ [][Next]_vars

\* ------------------------------------------------- loss of a worker process
\* services/celery_app.py lines 109-110: task_acks_late with
\* task_reject_on_worker_lost puts the message of a lost worker back on the
\* queue; the app created at tasks/render_task.py lines 33-38 sets neither, so
\* its message was acknowledged on receipt and is gone
requeue_on_worker_lost(q, job_id, late) == IF late THEN [q EXCEPT ![job_id] = @ + 1] ELSE q

\* the worker process executing render_job_task is killed: its locals are gone,
\* the job file is as the last write left it
Crash(w) ==
    /\ crashes < MaxCrashes
    /\ pc[w] # "idle"
    /\ crashes' = crashes + 1
    /\ queue' = requeue_on_worker_lost(queue, loc[w].job, acks_late)
    /\ loc' = [loc EXCEPT ![w] = [IdleLoc EXCEPT !.ret = "lost"]]
    /\ Goto(w, "idle")
    /\ UNCHANGED <<files, S3_BUCKET, BACON_URL, starts, resp, wlog, lastWriter, notified,
                   pv, rep, acks_late, progress, cancel, race, creates>>

\* the task is bound to either celery app (tasks/render_task.py lines 29-38);
\* local files only, no webhook
InitCrash ==
    /\ \E face \in BOOLEAN :
          files = [j \in JobIds |-> IF j = "j1" THEN NewJob(face, FALSE) ELSE NoFile]
    /\ queue = [j \in JobIds |-> 0]
    /\ S3_BUCKET = FALSE
    /\ BACON_URL = FALSE
    /\ starts = 0
    /\ resp = "none"
    /\ pc = [w \in Workers |-> "idle"]
    /\ loc = [w \in Workers |-> IdleLoc]
    /\ wlog = [w \in Workers |-> <<>>]
    /\ lastWriter = [j \in JobIds |-> "api"]
    /\ notified = [j \in JobIds |-> 0]
    /\ acks_late \in BOOLEAN
    /\ progress = [j \in JobIds |-> NoProgress]
    /\ crashes = 0
    /\ cancel = [j \in JobIds |-> NoCancel]
    /\ race = [a \in Actors |-> RaceIdle]
    /\ creates = 0
    /\ pv = PvIdle
    /\ rep = RepIdle

NextCrash ==
    \/ Next
    \/ \E w \in Workers : Crash(w)

SpecCrash == InitCrash /\ [][NextCrash]_vars

\* ------------------------------------- record updates, read and write apart
\* update_job_status, set_job_result and set_job_failed (lines 65-98) each call
\* read_job_file and later write_job_file; start_render calls Job.get and later
\* job.save. Nothing holds a lock in between, so another process can write the
\* file between the two calls.

\* positions of render_job_task at which it updates the job file
UpdateLabels ==
    {"started", "tts_status", "stage2_status", "post_status", "upload_status",
     "set_result", "set_failed"}

\* the record worker w writes at its position, computed from the record it read
record_update(w, job) ==
    CASE pc[w] = "started"       -> update_job_status(job, "started")
      [] pc[w] = "tts_status"    -> update_job_status(job, "tts")
      [] pc[w] = "stage2_status" -> update_job_status(job, stage2_name(loc[w].face))
      [] pc[w] = "post_status"   -> update_job_status(job, "postprocessing")
      [] pc[w] = "upload_status" -> update_job_status(job, "uploading")
      [] pc[w] = "set_result"    ->
            set_job_result(job, [video_url |-> loc[w].video_url, path |-> loc[w].final_path])
      [] pc[w] = "set_failed"    -> set_job_failed(job, error_string(loc[w].exc))

\* the position after the update
after_update(label) ==
    CASE label = "started"       -> "tts_status"
      [] label = "tts_status"    -> "tts"
      [] label = "stage2_status" -> "stage2"
      [] label = "post_status"   -> "combine"
      [] label = "upload_status" -> "upload"
      [] label = "set_result"    -> "webhook_ok"
      [] label = "set_failed"    -> "webhook_fail"

\* start_render lines 20-25: the record saved, computed from the record loaded
start_render_update(job) ==
    [Job_to_dict(job) EXCEPT !.status = "queued", !.meta.manual_started = TRUE]

\* read_job_file inside update_job_status & co. (lines 67-70, 80-83, 91-94)
RaceRead(w) ==
    /\ pc[w] \in UpdateLabels
    /\ race[w].phase = "idle"
    /\ race' = [race EXCEPT ![w] = [phase |-> "read", job |-> loc[w].job,
                                    snap |-> ReadOrBare(loc[w].job)]]
    /\ UNCHANGED <<files, queue, S3_BUCKET, BACON_URL, starts, resp, pc, loc, wlog,
                   lastWriter, notified, pv, rep, acks_late, progress, crashes, cancel, creates>>

\* write_job_file inside update_job_status & co. (lines 76, 87, 98)
RaceWrite(w) ==
    /\ race[w].phase = "read"
    /\ WriteJob(w, race[w].job, record_update(w, race[w].snap))
    /\ Goto(w, after_update(pc[w]))
    /\ race' = [race EXCEPT ![w] = RaceIdle]
    /\ UNCHANGED <<queue, S3_BUCKET, BACON_URL, starts, resp, loc, notified, pv, rep,
                   acks_late, progress, crashes, cancel, creates>>

\* start_render lines 13-18: Job.get, with the 404 and 409 answers passed
ApiGet(j) ==
    /\ starts < MaxStarts
    /\ race["api"].phase = "idle"
    /\ files[j] # NoFile
    /\ files[j].status \notin RejectedStatuses
    /\ race' = [race EXCEPT !["api"] = [phase |-> "read", job |-> j, snap |-> files[j]]]
    /\ UNCHANGED <<files, queue, S3_BUCKET, BACON_URL, starts, resp, pc, loc, wlog,
                   lastWriter, notified, pv, rep, acks_late, progress, crashes, cancel, creates>>

\* start_render lines 20-33: job.save() of the loaded record, then the enqueue
ApiSave ==
    /\ race["api"].phase = "read"
    /\ files' = [files EXCEPT ![race["api"].job] = start_render_update(race["api"].snap)]
    /\ lastWriter' = [lastWriter EXCEPT ![race["api"].job] = "api"]
    /\ queue' = enqueue_render_job(queue, race["api"].job)
    /\ starts' = starts + 1
    /\ resp' = "200"
    /\ race' = [race EXCEPT !["api"] = RaceIdle]
    /\ UNCHANGED <<S3_BUCKET, BACON_URL, pc, loc, wlog, notified, pv, rep,
                   acks_late, progress, crashes, cancel, creates>>

\* a job without face video and without webhook, local files only, nothing running
InitQuiet ==
    /\ files = [j \in JobIds |-> IF j = "j1" THEN NewJob(FALSE, FALSE) ELSE NoFile]
    /\ queue = [j \in JobIds |-> 0]
    /\ S3_BUCKET = FALSE
    /\ BACON_URL = FALSE
    /\ starts = 0
    /\ resp = "none"
    /\ pc = [w \in Workers |-> "idle"]
    /\ loc = [w \in Workers |-> IdleLoc]
    /\ wlog = [w \in Workers |-> <<>>]
    /\ lastWriter = [j \in JobIds |-> "api"]
    /\ notified = [j \in JobIds |-> 0]
    /\ InitAux

InitRace == InitQuiet /\ pv = PvIdle /\ rep = RepIdle

NextRace ==
    \/ \E j \in JobIds : StartRender404(j)
    \/ \E j \in JobIds : StartRender409(j)
    \/ \E j \in JobIds : ApiGet(j)
    \/ ApiSave
    \/ \E w \in Workers, j \in JobIds : Deliver(w, j)
    \/ \E w \in Workers : ReadJob(w)
    \/ \E w \in Workers : RaceRead(w)
    \/ \E w \in Workers : RaceWrite(w)
    \/ \E w \in Workers : Tts(w)
    \/ \E w \in Workers : Stage2(w)
    \/ \E w \in Workers : Combine(w)
    \/ \E w \in Workers : Upload(w)
    \/ \E w \in Workers : WebhookOk(w)
    \/ \E w \in Workers : WebhookFail(w)

SpecRace == InitRace /\ [][NextRace]_vars

\* ------------------------------------------------------------ cancellation
\* positions of render_job_task at which a stage is executing
StageLabels == {"tts", "stage2", "combine", "upload"}

\* a cancellation is requested for job j while a worker executes one of its
\* stages; for each such worker the request notes the number of stages the
\* execution may still complete: those done plus the running one
CancelRequest(j) ==
    /\ ~cancel[j].requested
    /\ \E w \in Workers : loc[w].job = j /\ pc[w] \in StageLabels
    /\ cancel' = [cancel EXCEPT ![j] =
                     [requested |-> TRUE,
                      at |-> [w \in Workers |->
                                IF loc[w].job = j /\ pc[w] \in StageLabels
                                THEN Len(loc[w].ran) + 1 ELSE 0]]]
    /\ UNCHANGED <<files, queue, S3_BUCKET, BACON_URL, starts, resp, pc, loc, wlog,
                   lastWriter, notified, pv, rep, acks_late, progress, crashes, race, creates>>

NextCancel ==
    \/ Next
    \/ \E j \in JobIds : CancelRequest(j)

\* same initial states as the record-update part: one job, local files, no webhook
SpecCancel == InitRace /\ [][NextCancel]_vars

\* --------------------------------------------- services/queue.py, send failure
\* outcome of celery_app.send_task: the message is published, or the call
\* raises (broker unreachable); enqueue_render_job has no handler
SendOutcomes == {"sent", "raise"}

\* start_render when send_task raises (render_routes.py lines 20-27): the
\* record was saved as queued on line 25, the exception of line 27 leaves the
\* handler and the framework answers 500; nothing is rolled back
StartRender500(j) ==
    /\ starts < MaxStarts
    /\ files[j] # NoFile
    /\ files[j].status \notin RejectedStatuses
    /\ "raise" \in SendOutcomes
    /\ files' = [files EXCEPT ![j] =
                    [Job_to_dict(files[j]) EXCEPT !.status = "queued",
                                                  !.meta.manual_started = TRUE]]
    /\ lastWriter' = [lastWriter EXCEPT ![j] = "api"]
    /\ starts' = starts + 1
    /\ resp' = "500"
    /\ UNCHANGED <<queue, S3_BUCKET, BACON_URL, pc, loc, wlog, pv, rep, auxVars, notified>>

NextSend ==
    \/ Next
    \/ \E j \in JobIds : StartRender500(j)

SpecSend == InitRace /\ [][NextSend]_vars

\* ------------------------------------------------- time in the polling loops
\* time.time() - started, counted in poll intervals; every instant after the
\* deadline is the same instant, so the count stops one past the timeout
timeout_seconds == MaxPolls

Tick(clock, d) == IF clock + d > timeout_seconds THEN timeout_seconds + 1 ELSE clock + d

\* a request (requests.get, client.predictions.get) returns within the
\* interval or takes one interval
RequestTicks == {0, 1}

\* ------------------------------------------------------------ tasks.py
\* JOB_MAX_ATTEMPTS default, tasks.py line 127
JOB_MAX_ATTEMPTS_DEFAULT == 3

\* set_meta (lines 38-40): hset merges the mapping into the job's hash
set_meta(meta, status, attempts) == [meta EXCEPT !.status = status, !.attempts = attempts]

\* the loop condition off by one
attempts_left_inclusive(attempts, max_attempts) == attempts <= max_attempts

\* line 130: the loop condition of process_video_job
attempts_left(attempts, max_attempts) == attempts < max_attempts

\* lines 146/173/187: video_url = s3_url if s3_url else the /static/videos URL
pv_video_url(s3_url) == IF s3_url # "None" THEN "s3" ELSE "local"

\* upload_to_s3 (lines 54-67): None without bucket or when the upload raised
upload_to_s3(s3cfg, outcome) == IF s3cfg /\ outcome = "ok" THEN "url" ELSE "None"

InitPV ==
    /\ files = [j \in JobIds |-> IF j = "j1" THEN NewJob(FALSE, FALSE) ELSE NoFile]
    /\ queue = [j \in JobIds |-> 0]
    /\ S3_BUCKET \in BOOLEAN
    /\ BACON_URL = FALSE
    /\ starts = 0
    /\ resp = "none"
    /\ pc = [w \in Workers |-> "idle"]
    /\ loc = [w \in Workers |-> IdleLoc]
    /\ wlog = [w \in Workers |-> <<>>]
    /\ lastWriter = [j \in JobIds |-> "api"]
    /\ notified = [j \in JobIds |-> 0]
    /\ InitAux
    /\ rep = RepIdle
    /\ \E n \in 0..MaxAttemptsEnv : pv = [PvIdle EXCEPT !.pc = "start", !.max_attempts = n]

\* append_log (lines 41-43): rpush onto video:<uuid>:logs
append_log(log, msg) == Append(log, msg)

\* lines 124-128: "Worker started", set_meta(status=running), attempts = 0
PvStart ==
    /\ pv.pc = "start"
    /\ pv' = [pv EXCEPT !.pc = "loop", !.attempts = 0, !.meta.status = "running",
                        !.log = append_log(@, "Worker started")]
    /\ UNCHANGED renderVars

\* lines 130-131 and 200-203: loop head; after the loop the job is marked failed
PvLoop ==
    /\ pv.pc = "loop"
    /\ IF attempts_left(pv.attempts, pv.max_attempts)
       THEN pv' = [pv EXCEPT !.pc = "post", !.attempts = @ + 1]
       ELSE pv' = [pv EXCEPT !.pc = "done", !.ret = "failed_after_retries",
                             !.meta = set_meta(@, "failed", pv.attempts),
                             !.log = append_log(@, "Job failed after retries")]
    /\ UNCHANGED renderVars

\* lines 194-195: the answer was of no use: set_meta(status=error, error=str(j))
PvUnexpected(p) ==
    [p EXCEPT !.pc = "sleep",
              !.meta = [set_meta(@, "error", p.attempts) EXCEPT !.error = "json"],
              !.log = append_log(@, "Unexpected HF response")]

\* the exception handler returning instead of going on to the next attempt
PvException_gives_up(p) ==
    [p EXCEPT !.pc = "done", !.ret = "error",
              !.meta = [set_meta(@, "error", p.attempts) EXCEPT !.error = "exception"],
              !.log = append_log(@, "Attempt exception")]

\* lines 196-198: an exception inside the attempt: set_meta(status=error, error=str(e))
PvException(p) ==
    [p EXCEPT !.pc = "sleep",
              !.meta = [set_meta(@, "error", p.attempts) EXCEPT !.error = "exception"],
              !.log = append_log(@, "Attempt exception")]

\* lines 136-178: the POST to the HF router and the classification of its answer
PvPost ==
    /\ pv.pc = "post"
    /\ \E r \in {"binary", "json_url", "json_handle", "json_other", "exception"} :
          LET called == [pv EXCEPT !.calls = @ + 1,
                                   !.log = append_log(@, "Calling HF router")] IN
          pv' = CASE r = "binary"      -> [called EXCEPT !.pc = "save"]
                  [] r = "json_url"    ->
                        [called EXCEPT !.pc = "download",
                                       !.log = append_log(@, "Found candidate URL")]
                  [] r = "json_handle" ->
                        [called EXCEPT !.pc = "poll", !.polls = 0, !.last = "none",
                                       !.clock = 0,
                                       !.log = append_log(@, "Detected job_id/status_url")]
                  [] r = "json_other"  -> PvUnexpected(called)
                  [] r = "exception"   -> PvException(called)
    /\ UNCHANGED renderVars

\* poll_hf_job (lines 76-121), what one pass of its loop meets:
\*   timeout            the loop condition is false: {"error": "timeout"}
\*   no_job_identifier  job_info has neither status_url nor job_id (line 92)
\*   urls               the answer holds a string starting with http (line 111)
\*   succeeded          a status of line 115 and no url: {"raw": j}
\*   failed, cancelled  the remote side reports the request as ended without result
\*   pending            any other answer
\*   exception          the request raised, or the answer could not be used
PollAnswers ==
    {"timeout", "no_job_identifier", "urls", "succeeded", "failed", "cancelled",
     "pending", "exception"}

\* lines 110-120: the answers after which the loop sleeps and polls again
poll_continues(answer) == answer \in {"pending", "exception", "failed", "cancelled"}

\* the loop condition of poll_hf_job read one interval too long
hf_loop_condition_inclusive(clock) == clock <= timeout_seconds

\* line 86: while time.time() - started < timeout_seconds
hf_loop_condition(clock) == clock < timeout_seconds

\* timeout_seconds have elapsed since started (line 83)
hf_deadline_passed(clock) == clock >= timeout_seconds

\* lines 180-192: one pass of the loop of poll_hf_job; when it returns,
\* process_video_job goes on with the urls, or treats the attempt as failed.
\* The request is made at pv.clock, takes d, and line 120 sleeps one interval
PvPoll ==
    /\ pv.pc = "poll"
    /\ \E r \in PollAnswers, d \in RequestTicks :
          /\ (r = "timeout") <=> ~hf_loop_condition(pv.clock)
          /\ r = "no_job_identifier" => pv.polls = 0
          /\ ~poll_continues(r) => d = 0
          /\ LET requested == r \notin {"timeout", "no_job_identifier"}
                 polled == [pv EXCEPT !.last = r,
                                      !.polls = IF requested THEN @ + 1 ELSE @,
                                      !.late = IF requested /\ hf_deadline_passed(pv.clock)
                                               THEN @ + 1 ELSE @,
                                      !.clock = IF poll_continues(r)
                                                THEN Tick(Tick(@, d), 1) ELSE @] IN
             pv' = IF poll_continues(r) THEN polled
                   ELSE IF r = "urls"
                   THEN [polled EXCEPT !.pc = "download",
                                       !.log = append_log(@, "Poll found urls")]
                   ELSE PvUnexpected([polled EXCEPT
                                         !.log = append_log(@, "Poll did not find urls")])
    /\ UNCHANGED renderVars

\* lines 170 / 184: try_download_url returns the bytes or raises
PvDownload ==
    /\ pv.pc = "download"
    /\ \E r \in {"ok", "raise"} :
          pv' = IF r = "ok" THEN [pv EXCEPT !.pc = "save"] ELSE PvException(pv)
    /\ UNCHANGED renderVars

\* lines 142 / 171 / 185: save_bytes_to_file
PvSave ==
    /\ pv.pc = "save"
    /\ pv' = [pv EXCEPT !.pc = "s3", !.saved = TRUE]
    /\ UNCHANGED renderVars

\* lines 145-149 (and 172-176, 186-190): upload, set_meta(completed), return
PvComplete ==
    /\ pv.pc = "s3"
    /\ \E o \in {"ok", "raise"} :
          pv' = [pv EXCEPT !.pc = "done", !.ret = "ok",
                           !.meta = [set_meta(@, "completed", pv.attempts) EXCEPT
                                        !.video_url = pv_video_url(upload_to_s3(S3_BUCKET, o))],
                           !.log = append_log(@, "Job completed")]
    /\ UNCHANGED renderVars

\* line 199: time.sleep(3 + attempts)
PvSleep ==
    /\ pv.pc = "sleep"
    /\ pv' = [pv EXCEPT !.pc = "loop"]
    /\ UNCHANGED renderVars

process_video_job ==
    PvStart \/ PvLoop \/ PvPost \/ PvPoll \/ PvDownload \/ PvSave \/ PvComplete \/ PvSleep

NextPV ==
    \/ PvStart
    \/ PvLoop
    \/ PvPost
    \/ PvPoll
    \/ PvDownload
    \/ PvSave
    \/ PvComplete
    \/ PvSleep

SpecPV == InitPV /\ [][NextPV]_vars

\* the RQ worker runs the task it has started to its end: every step of
\* process_video_job that can be taken is taken
SpecPVLive == SpecPV /\ WF_vars(NextPV)

\* --------------------------------------------------- tasks/housekeeping.py
\* age of a record, now - created_at, as cleanup_old_jobs compares it:
\*   fresh  at most 24 hours
\*   day    more than 24 hours, at most FILE_RETENTION_DAYS days
\*   old    more than FILE_RETENTION_DAYS days
Ages == {"fresh", "day", "old"}

\* a record has a created_at unless it was rebuilt from {"id": job_id}
has_created_at(job) == job.payload # "unset"

\* cleanup_old_jobs lines 18-28: the first test asks for status failed, the
\* second (lines 25-28) looks at the age alone
cleanup_deletes(job, age) ==
    has_created_at(job)
        /\ \/ (job.status = "failed" /\ age \in {"day", "old"})
           \/ age = "old"

\* cleanup_old_jobs lines 14-30, the pass over one file that ends in unlink
Cleanup(j) ==
    /\ files[j] # NoFile
    /\ \E age \in Ages : cleanup_deletes(files[j], age)
    /\ files' = [files EXCEPT ![j] = NoFile]
    /\ UNCHANGED <<queue, S3_BUCKET, BACON_URL, starts, resp, pc, loc, wlog, lastWriter,
                   notified, pv, rep, auxVars>>

NextClean ==
    \/ Next
    \/ \E j \in JobIds : Cleanup(j)

SpecClean == InitRace /\ [][NextClean]_vars

\* ------------------------------------------------------- utils/progress.py
\* values a caller passes as progress, and the statuses passed along
ProgressArgs == {-1, 0, 50, 100, 101}
ProgressStatuses == {"rendering", "uploading", "completed"}

\* set_progress lines 18-21: the payload stored under job:<id>:status; the
\* value is int(progress), nothing else is looked at
progress_payload(status, value) == [status |-> status, progress |-> value, stored |-> TRUE]

\* set_progress(job_id, status, progress)
SetProgress(j) ==
    /\ \E status \in ProgressStatuses, value \in ProgressArgs :
          progress' = [progress EXCEPT ![j] = progress_payload(status, value)]
    /\ UNCHANGED <<files, queue, S3_BUCKET, BACON_URL, starts, resp, pc, loc, wlog,
                   lastWriter, notified, pv, rep, acks_late, crashes, cancel, race, creates>>

NextProgress ==
    \E j \in JobIds : SetProgress(j)

SpecProgress == InitRace /\ [][NextProgress]_vars

\* ----------------------------------------------------- api/routes/video.py
\* create_video lines 27-38: the record written for a new job; meta is the
\* caller's dict (hook: it names a webhook_url), the schema has no face video
create_video_record(hook, script) == [NewJob(FALSE, hook) EXCEPT !.payload = script]

\* the script of a request body: the empty string, whitespace only, or text
\* (a body without script is turned down by the schema before create_video runs)
Scripts == {"empty", "blank", "text"}

\* the check of line 24 without its second part, body.script.strip()
script_rejected_unstripped(script) == script = "empty"

\* create_video line 24: not body.script or not body.script.strip()
script_rejected(script) == script \in {"empty", "blank"}

\* create_video with the import of line 41 finding enqueue_render_job
create_video_enqueue_imported(q, jid) == enqueue_render_job(q, jid)

\* create_video lines 40-44: enqueue_render_job is imported from
\* services.celery_app, which does not define it (it is in services/queue.py);
\* the ImportError is swallowed and no message is sent
create_video_enqueue(q, jid) == q

\* create_video lines 24-25: empty or blank script: 400, nothing written
CreateVideo400 ==
    /\ creates < MaxCreates
    /\ \E script \in Scripts : script_rejected(script)
    /\ creates' = creates + 1
    /\ resp' = "400"
    /\ UNCHANGED <<files, queue, S3_BUCKET, BACON_URL, starts, pc, loc, wlog, lastWriter,
                   notified, pv, rep, acks_late, progress, crashes, cancel, race>>

\* create_video lines 26-45: jid is the fresh uuid4
CreateVideo(jid) ==
    /\ creates < MaxCreates
    /\ files[jid] = NoFile
    /\ \E hook \in BOOLEAN, script \in Scripts :
          /\ ~script_rejected(script)
          /\ files' = [files EXCEPT ![jid] = create_video_record(hook, script)]
    /\ lastWriter' = [lastWriter EXCEPT ![jid] = "api"]
    /\ queue' = create_video_enqueue(queue, jid)
    /\ creates' = creates + 1
    /\ resp' = "created"
    /\ UNCHANGED <<S3_BUCKET, BACON_URL, starts, pc, loc, wlog, notified, pv, rep,
                   acks_late, progress, crashes, cancel, race>>

\* no job record yet; local files only
InitCreate ==
    /\ files = [j \in JobIds |-> NoFile]
    /\ queue = [j \in JobIds |-> 0]
    /\ S3_BUCKET = FALSE
    /\ BACON_URL = FALSE
    /\ starts = 0
    /\ resp = "none"
    /\ pc = [w \in Workers |-> "idle"]
    /\ loc = [w \in Workers |-> IdleLoc]
    /\ wlog = [w \in Workers |-> <<>>]
    /\ lastWriter = [j \in JobIds |-> "api"]
    /\ notified = [j \in JobIds |-> 0]
    /\ InitAux
    /\ pv = PvIdle
    /\ rep = RepIdle

NextCreate ==
    \/ CreateVideo400
    \/ \E j \in JobIds : CreateVideo(j)
    \/ Next

SpecCreate == InitCreate /\ [][NextCreate]_vars

\* ------------------------------------------------------------- app.py
\* replicate_generate_video (lines 67-166): token and model from the environment
InitRep ==
    /\ InitQuiet
    /\ pv = PvIdle
    /\ \E t \in BOOLEAN, m \in BOOLEAN :
          rep = [RepIdle EXCEPT !.pc = "start", !.token = t, !.model = m]

\* return None after the given error was logged
RepNone(r, msg) == [r EXCEPT !.pc = "done", !.ret = "None", !.logged = msg]

\* lines 73-81: no token or no model: return None
RepStart ==
    /\ rep.pc = "start"
    /\ rep' = IF ~rep.token THEN RepNone(rep, "No REPLICATE_API_TOKEN found")
              ELSE IF ~rep.model THEN RepNone(rep, "REPLICATE_MODEL_VERSION not configured")
              ELSE [rep EXCEPT !.pc = "create"]
    /\ UNCHANGED <<renderVarsButRep, pv>>

\* lines 96-99: client.predictions.create; an exception reaches line 164
RepCreate ==
    /\ rep.pc = "create"
    /\ \E o \in {"ok", "raise"} :
          rep' = IF o = "ok" THEN [rep EXCEPT !.pc = "poll"]
                 ELSE RepNone(rep, "Replicate exception")
    /\ UNCHANGED <<renderVarsButRep, pv>>

\* what client.predictions.get gives in one pass of the loop: a status, or an
\* exception (connection error, timeout, unparsable response)
ReplicateAnswers == {"succeeded", "failed", "canceled", "processing", "exception"}

\* lines 104-117: where one pass of the loop leads; elapsed says whether
\* timeout_seconds have passed. The try of line 83 encloses the loop, so an
\* exception of predictions.get ends the function at line 164
replicate_after_poll(answer, elapsed) ==
    CASE answer = "succeeded"  -> "output"
      [] answer = "failed"     -> "done"
      [] answer = "canceled"   -> "done"
      [] answer = "exception"  -> "done"
      [] answer = "processing" -> IF elapsed THEN "done" ELSE "poll"

replicate_poll_message(answer) ==
    CASE answer = "failed" -> "Replicate failed"
      [] answer = "canceled" -> "Replicate failed"
      [] answer = "exception" -> "Replicate exception"
      [] answer = "processing" -> "Replicate job timeout"

\* line 113: time.time() - start > timeout_seconds
replicate_timed_out(clock) == clock > timeout_seconds

\* lines 103-117: one pass of the polling loop. The request is made at
\* rep.clock and takes d, line 113 reads the time after it, line 117 sleeps
\* one interval
RepPoll ==
    /\ rep.pc = "poll"
    /\ \E a \in ReplicateAnswers, d \in RequestTicks :
          /\ LET checked == Tick(rep.clock, d)
                 e == replicate_timed_out(checked)
                 polled == [rep EXCEPT !.polls = @ + 1, !.seen = Append(@, a),
                                       !.elapsed = e,
                                       !.late = IF replicate_timed_out(rep.clock)
                                                THEN @ + 1 ELSE @,
                                       !.clock = IF replicate_after_poll(a, e) = "poll"
                                                 THEN Tick(checked, 1) ELSE checked] IN
             rep' = IF replicate_after_poll(a, e) = "done"
                    THEN RepNone(polled, replicate_poll_message(a))
                    ELSE [polled EXCEPT !.pc = replicate_after_poll(a, e)]
    /\ UNCHANGED <<renderVarsButRep, pv>>

\* lines 120-137: the url taken from prediction.output
RepOutput ==
    /\ rep.pc = "output"
    /\ \E o \in {"empty", "dict_url", "dict_uri", "dict_other", "str"} :
          rep' = CASE o = "empty"      -> RepNone(rep, "No output from Replicate")
                   [] o = "dict_other" -> RepNone(rep, "No downloadable URL")
                   [] OTHER            -> [rep EXCEPT !.pc = "download", !.url = o]
    /\ UNCHANGED <<renderVarsButRep, pv>>

\* lines 145-152: the file extension chosen from the content type
replicate_ext(ctype) ==
    IF ctype = "audio" THEN ".mp3"
    ELSE IF ctype = "quicktime" THEN ".mov"
    ELSE ".mp4"

\* lines 139-162: download and save; an exception reaches line 164
RepDownload ==
    /\ rep.pc = "download"
    /\ \E o \in {"raise", "audio", "video", "quicktime", "other"} :
          rep' = IF o = "raise" THEN RepNone(rep, "Replicate exception")
                 ELSE [rep EXCEPT !.pc = "done", !.ret = replicate_ext(o)]
    /\ UNCHANGED <<renderVarsButRep, pv>>

replicate_generate_video == RepStart \/ RepCreate \/ RepPoll \/ RepOutput \/ RepDownload

NextRep ==
    \/ RepStart
    \/ RepCreate
    \/ RepPoll
    \/ RepOutput
    \/ RepDownload

SpecRep == InitRep /\ [][NextRep]_vars

\* --------------------------------------- the two polling clients side by side
\* process_video_job (with one attempt) and replicate_generate_video (token
\* and model configured), each running to its end
InitPoll ==
    /\ InitQuiet
    /\ pv = [PvIdle EXCEPT !.pc = "start", !.max_attempts = 1]
    /\ rep = [RepIdle EXCEPT !.pc = "start", !.token = TRUE, !.model = TRUE]

NextPoll ==
    \/ NextPV
    \/ NextRep

SpecPoll == InitPoll /\ [][NextPoll]_vars /\ WF_vars(NextPV) /\ WF_vars(NextRep)

\* ================================================================ claims
Range(seq) == {seq[i] : i \in 1..Len(seq)}
Last(seq) == seq[Len(seq)]
Count(seq, x) == Cardinality({i \in 1..Len(seq) : seq[i] = x})

Exists(j) == files[j] # NoFile
InProgress == {"started", "tts", "lipsync", "rendering", "postprocessing", "uploading"}
Terminal == {"completed", "failed"}

\* position of a status in created, queued, <stages in pipeline order>, terminal
Rank(status) ==
    CASE status = "created"        -> 0
      [] status = "queued"         -> 1
      [] status = "started"        -> 2
      [] status = "tts"            -> 3
      [] status = "lipsync"        -> 4
      [] status = "rendering"      -> 4
      [] status = "postprocessing" -> 5
      [] status = "uploading"      -> 6
      [] status = "completed"      -> 7
      [] status = "failed"         -> 7
      [] OTHER                     -> -1

\* worker w is inside render_job_task and has written a status for its job
Executing(w) == pc[w] # "idle" /\ wlog[w] # <<>>

\* C1: every change of a job record's status moves forward along
\* created, queued, started, tts, lipsync|rendering, postprocessing, uploading,
\* completed|failed, and no status follows completed or failed.
C1_StatusNeverMovesBackward ==
    [][\A j \in JobIds :
          (Exists(j) /\ files'[j] # NoFile /\ files'[j].status # files[j].status)
             => /\ files[j].status \notin Terminal
                /\ Rank(files'[j].status) > Rank(files[j].status)]_vars

\* C2: two workers never execute render_job_task for the same job id at the
\* same time: of two concurrent deliveries only one gets past the start.
C2_OneWorkerPerJob ==
    \A w1, w2 \in Workers :
        (w1 # w2 /\ Executing(w1) /\ Executing(w2)) => loc[w1].job # loc[w2].job

\* C3: a start_render call for a job that is queued or being processed sends
\* no render message.
C3_EnqueueIdempotent ==
    [][\A j \in JobIds :
          (Exists(j) /\ files[j].status \in ({"queued"} \cup InProgress))
             => queue'[j] <= queue[j]]_vars

\* C4: process_video_job never calls the remote more than JOB_MAX_ATTEMPTS
\* times, and the status failed is stored only after exactly JOB_MAX_ATTEMPTS
\* calls, with attempts = JOB_MAX_ATTEMPTS.
C4_ExactlyMaxAttempts ==
    /\ pv.calls <= pv.max_attempts
    /\ pv.meta.status = "failed" =>
          /\ pv.calls = pv.max_attempts
          /\ pv.meta.attempts = pv.max_attempts

C4_Witness ==
    /\ pv.meta.status = "failed"
    /\ pv.max_attempts = JOB_MAX_ATTEMPTS_DEFAULT
    /\ pv.calls = JOB_MAX_ATTEMPTS_DEFAULT

\* C5: in every job record, result is set exactly when status is completed and
\* error is set exactly when status is failed.
C5_ResultIffCompleted ==
    \A j \in JobIds :
        Exists(j) =>
            /\ (files[j].result # NoResult) <=> (files[j].status = "completed")
            /\ (files[j].error # NoError) <=> (files[j].status = "failed")

\* C6: once a record's status is completed, no step changes its status or result.
C6_CompletedIsFinal ==
    [][\A j \in JobIds :
          (Exists(j) /\ files[j].status = "completed")
             => /\ files'[j] # NoFile
                /\ files'[j].status = "completed"
                /\ files'[j].result = files[j].result]_vars

\* a stage of the running execution did not produce its output
StageFailed(w) ==
    \/ loc[w].audio \in {"silent", "empty"}
    \/ loc[w].exc \in {"lipsync", "rendering"}
    \/ loc[w].combine = "raise"

\* C7: an execution in which a stage failed to produce its output never
\* writes the status completed.
C7_FailedStageNeverCompletes ==
    \A w \in Workers : StageFailed(w) => "completed" \notin Range(wlog[w])

C9_WebhookLeavesRecord ==
    [][\A w \in Workers :
          (pc[w] \in {"webhook_ok", "webhook_fail"} /\ pc'[w] # pc[w])
             => /\ files' = files
                /\ pc'[w] = "idle"]_vars

C9_Witness ==
    \E w \in Workers :
        /\ loc[w].whk = "raise"
        /\ pc[w] = "idle"
        /\ loc[w].ret = "ok"
        /\ files[loc[w].job].status = "completed"
        /\ files[loc[w].job].result # NoResult

\* every stage of the execution of w produced its output
AllStagesOk(w) ==
    /\ loc[w].audio = "speech"
    /\ loc[w].video = "blender_out"
    /\ loc[w].combine = "ok"

\* C10: an execution writes completed at most once, only after the upload step,
\* and writes nothing after it; an execution whose stages all succeeded returns
\* ok having written started, tts, rendering, postprocessing, uploading,
\* completed, and its last write left status completed, the result with the
\* final locator and completed_at.
C10_SuccessCompletes ==
    \A w \in Workers :
        /\ "completed" \in Range(wlog[w]) =>
              /\ pc[w] \in {"webhook_ok", "idle"}
              /\ loc[w].upload # "none"
              /\ Last(wlog[w]) = "completed"
              /\ Count(wlog[w], "completed") = 1
        /\ (AllStagesOk(w) /\ pc[w] \in {"webhook_ok", "idle"}) =>
              /\ wlog[w] = <<"started", "tts", "rendering", "postprocessing",
                             "uploading", "completed">>
              /\ pc[w] = "idle" => loc[w].ret = "ok"
              /\ lastWriter[loc[w].job] = w =>
                    /\ files[loc[w].job].status = "completed"
                    /\ files[loc[w].job].result =
                          [video_url |-> loc[w].video_url, path |-> "final_out"]
                    /\ files[loc[w].job].completed_at

C10_Witness ==
    \E w \in Workers :
        /\ AllStagesOk(w)
        /\ pc[w] = "idle"
        /\ loc[w].ret = "ok"
        /\ lastWriter[loc[w].job] = w
        /\ files[loc[w].job].status = "completed"

\* C11: a job whose worker died in an in-progress status is never stuck: it is
\* still being executed, or its message is waiting on the queue, or
\* start_render accepts a request for it (its status is not one of the
\* rejected ones) and enqueues it again.
C11_LostJobRecoverable ==
    \A j \in JobIds :
        (Exists(j) /\ files[j].status \in InProgress)
            => \/ \E w \in Workers : pc[w] # "idle" /\ loc[w].job = j
               \/ queue[j] > 0
               \/ files[j].status \notin RejectedStatuses

\* the record an actor's pending write would produce from a given record
PendingUpdate(a, job) ==
    IF a = "api" THEN start_render_update(job) ELSE record_update(a, job)

\* C12: updates of one job record never interleave: whenever an actor writes
\* the record, what it writes is its update applied to the record as it is at
\* that moment, so nothing another actor wrote since the read is lost.
C12_NoLostUpdate ==
    [][\A a \in Actors :
          (race[a].phase = "read" /\ race'[a].phase = "idle")
              => files'[race[a].job] = PendingUpdate(a, ReadOrBare(race[a].job))]_vars

\* C13: once a cancellation has been requested for a job during a stage, the
\* execution that was running completes at most the stage that was executing:
\* no later stage of the job is run by it.
C13_CancelStopsLaterStages ==
    \A j \in JobIds : \A w \in Workers :
        (cancel[j].requested /\ cancel[j].at[w] > 0 /\ loc[w].job = j)
            => Len(loc[w].ran) <= cancel[j].at[w]

\* the stage an error value names, "none" when it has no such part
ErrorStage(error) == IF "stage" \in DOMAIN error THEN error.stage ELSE "none"

\* C14: when an execution has failed in a stage and has written status failed,
\* the error stored in the record names that stage.
C14_ErrorNamesFailedStage ==
    \A w \in Workers :
        (/\ pc[w] = "webhook_fail"
         /\ lastWriter[loc[w].job] = w
         /\ files[loc[w].job].status = "failed")
            => ErrorStage(files[loc[w].job].error) = loc[w].exc

\* the status a worker posts to the webhook at its position
PostedStatus(w) == IF pc[w] = "webhook_ok" THEN "completed" ELSE "failed"

\* C15: every webhook post made for a job is the only one for that job, and the
\* status it carries is the terminal status the record holds at that moment.
C15_NotifiedOnceWithStoredStatus ==
    [][\A w \in Workers :
          (/\ pc[w] \in {"webhook_ok", "webhook_fail"}
           /\ notified'[loc[w].job] = notified[loc[w].job] + 1)
              => /\ notified[loc[w].job] = 0
                 /\ files[loc[w].job].status = PostedStatus(w)]_vars

\* C16: while process_video_job is running and has attempts left, the status
\* in the job's metadata is running: neither error nor failed is stored before
\* the retry ceiling is reached.
C16_RunningWhileAttemptsLeft ==
    (pv.pc \notin {"off", "start", "done"} /\ attempts_left(pv.attempts, pv.max_attempts))
        => pv.meta.status = "running"

\* C17: when a poll is answered with a terminal failure (failed or cancelled),
\* polling stops with that answer, the job is marked failed, and the request
\* is not posted again.
C17_RemoteFailureIsPermanent ==
    [][(pv.pc = "poll" /\ pv'.polls = pv.polls + 1 /\ pv'.last \in {"failed", "cancelled"})
          => /\ pv'.pc = "done"
             /\ pv'.meta.status = "failed"
             /\ pv'.calls = pv.calls]_vars

\* C18: a poll request that fails before the overall timeout has elapsed does
\* not end the polling loop of replicate_generate_video: the next pass follows.
C18_PollFailureIsTransient ==
    [][(/\ rep.pc = "poll"
        /\ Len(rep'.seen) = Len(rep.seen) + 1
        /\ Last(rep'.seen) = "exception"
        /\ ~rep'.elapsed)
          => rep'.pc = "poll"]_vars

IsPrefix(s, t) == Len(s) <= Len(t) /\ \A i \in 1..Len(s) : s[i] = t[i]

\* the stages of one execution in their declared order
DeclaredStages(w) == <<"tts", stage2_name(loc[w].face), "postprocessing", "uploading">>

\* C19: in every execution the stages run so far are an initial part of the
\* declared order (speech synthesis, lip-sync or scene render, post-processing,
\* upload), so each ran at most once and in order; and when a stage has raised
\* out of the pipeline, it is the last stage that ran.
C19_StagesInOrder ==
    \A w \in Workers :
        /\ IsPrefix(loc[w].ran, DeclaredStages(w))
        /\ loc[w].exc \in {"lipsync", "rendering"}
              => (loc[w].ran # <<>> /\ Last(loc[w].ran) = loc[w].exc)

\* one execution has run all four stages, another has ended after its second
\* stage raised
C19_Witness ==
    /\ \E w \in Workers : pc[w] = "idle" /\ loc[w].ran = DeclaredStages(w) /\ loc[w].ret = "ok"
    /\ \E w \in Workers :
          /\ pc[w] = "idle" /\ loc[w].ret = "raised"
          /\ loc[w].exc \in {"lipsync", "rendering"}
          /\ Len(loc[w].ran) = 2

C21_RejectedSubmissionWritesNothing ==
    /\ [][(creates' = creates + 1 /\ resp' = "400")
            => (files' = files /\ queue' = queue)]_vars
    /\ [](\A j \in JobIds : Exists(j) => files[j].payload \notin {"empty", "blank"})

\* a submission was rejected and there is still no record
C21_Witness ==
    /\ creates = 1
    /\ resp = "400"
    /\ \A j \in JobIds : files[j] = NoFile /\ queue[j] = 0

\* C22: an id without record stays without record whatever is looked up or
\* updated under it, and a render_job_task that finds no record for its id
\* does not end in an exception.
C22_UnknownIdChangesNothing ==
    /\ [][\A j \in JobIds : files[j] = NoFile => files'[j] = NoFile]_vars
    /\ [](\A w \in Workers : loc[w].exc = "FileNotFoundError" => loc[w].ret # "raised")

\* a change of status that the status order forbids: out of a terminal status,
\* or to a status that comes earlier
IllegalTransition(from, to) == from # to /\ (from \in Terminal \/ Rank(to) < Rank(from))

\* C23: a write whose status would be an illegal transition is not applied: the
\* stored record stays as it was.
C23_IllegalWriteRejected ==
    [][\A j \in JobIds :
          (Exists(j) /\ files'[j] # NoFile
                /\ IllegalTransition(files[j].status, files'[j].status))
              => files'[j] = files[j]]_vars

\* C24: a stored progress is between 0 and 100, and a set_progress call for a
\* job whose stored status is not terminal never stores a smaller value than
\* the one stored before.
C24_ProgressBoundedMonotone ==
    /\ [](\A j \in JobIds :
             progress[j].stored => (progress[j].progress >= 0 /\ progress[j].progress <= 100))
    /\ [][\A j \in JobIds :
             (progress[j].stored /\ progress'[j].stored
                  /\ progress[j].status \notin Terminal)
                 => progress'[j].progress >= progress[j].progress]_vars

\* C25: every job record holds the submitted input it was created with,
\* whatever status and result updates and cleanup passes have run.
C25_PayloadKept ==
    \A j \in JobIds : Exists(j) => files[j].payload = "text"

\* the file named by final_path was written: final_out is written by a
\* successful combine only, the stage-2 output by the stage that returned it
LocalCopyExists(w) ==
    IF loc[w].final_path = "final_out" THEN loc[w].combine = "ok"
    ELSE loc[w].final_path = loc[w].video /\ loc[w].video # "none"

\* C26: when render_job_task attempts the upload, and when it marks the job
\* completed, the local file it names as the final output exists.
C26_LocalCopyBeforeUpload ==
    \A w \in Workers :
        pc[w] \in {"upload", "set_result", "webhook_ok"} => LocalCopyExists(w)

\* C27: every record that cleanup_old_jobs deletes belongs to a finished job
\* (failed or completed); records of created, queued or in-progress jobs are
\* never removed, whatever their age.
C27_CleanupDeletesOnlyFinished ==
    [][\A j \in JobIds :
          (files[j] # NoFile /\ files'[j] = NoFile) => files[j].status \in Terminal]_vars

\* a render message for job j is waiting on the queue or a worker holds it
MessageOutstanding(j) ==
    queue[j] > 0 \/ \E w \in Workers : pc[w] # "idle" /\ loc[w].job = j

\* C28: whenever start_render has left a record with status queued, a render
\* message for that job is on the queue or is being processed by a worker.
C28_QueuedHasMessage ==
    \A j \in JobIds :
        (Exists(j) /\ files[j].status = "queued" /\ lastWriter[j] = "api")
            => MessageOutstanding(j)

\* C29: every execution of process_video_job ends, after at most
\* JOB_MAX_ATTEMPTS attempts, with the job status completed or failed (never
\* running or error), whatever the remote side answers in each attempt.
C29_EndsCompletedOrFailed ==
    /\ <>(pv.pc = "done")
    /\ [](pv.pc = "done" =>
            /\ pv.meta.status \in {"completed", "failed"}
            /\ pv.calls <= pv.max_attempts
            /\ pv.attempts <= pv.max_attempts)

C29_Witness ==
    /\ pv.pc = "done"
    /\ pv.meta.status = "completed"
    /\ pv.max_attempts > 1
    /\ pv.calls = pv.max_attempts
    /\ pv.polls > 0

\* both loops return, poll_hf_job at once when the response names no job,
\* and replicate_generate_video after at least one poll, as soon as the
\* remote state is terminal or the timeout has elapsed
PollingLoopsReturn ==
    /\ (pv.pc = "poll") ~> (pv.pc # "poll")
    /\ (rep.pc = "poll") ~> (rep.pc # "poll")
    /\ [](pv.last = "timeout" => hf_deadline_passed(pv.clock))
    /\ [](pv.last = "no_job_identifier" => pv.polls = 0)
    /\ []((rep.pc = "poll" /\ rep.polls > 0)
            => (Last(rep.seen) = "processing" /\ ~rep.elapsed))
    /\ [](rep.pc \in {"output", "download"} => rep.polls >= 1)

\* C30 as stated: every polling loop terminates (poll_hf_job with a result
\* or a timeout error, at once without a job identifier;
\* replicate_generate_video after at least one poll once the state is
\* terminal or the timeout elapsed), and neither loop makes a poll after its
\* deadline has passed.
C30_NoPollAfterDeadline ==
    /\ PollingLoopsReturn
    /\ [](pv.late = 0 /\ rep.late = 0)

\* C30 amended: every polling loop terminates as above; poll_hf_job makes
\* no poll after its deadline has passed, replicate_generate_video at most
\* one, the poll that follows the sleep during which the deadline passed.
C30_AtMostOnePollAfterDeadline ==
    /\ PollingLoopsReturn
    /\ [](pv.late = 0 /\ rep.late <= 1)

C30_Witness ==
    /\ pv.pc = "done" /\ pv.last = "timeout" /\ pv.polls > 0
    /\ rep.pc = "done" /\ rep.logged = "Replicate job timeout" /\ rep.late = 1
====
